---- MODULE Spec2Model ----
(***************************************************************************)
(* Round lifecycle and settlement engine of src/index.js.                  *)
(*                                                                         *)
(* Node runs one handler at a time and switches handlers only at an await, *)
(* so every action below is the code between two awaits of one handler.    *)
(* Timers are modelled without a clock: an armed timer may fire at any     *)
(* later moment.  Amounts of SOL are in units of 0.001 SOL, token amounts  *)
(* are whole XPOSURE as in the code (Math.floor of the ui amount).         *)
(* saveState is taken to succeed: a failing write is outside this model.   *)
(***************************************************************************)
EXTENDS Integers, Sequences, FiniteSets, TLC

\* ------------------------------------------------------------ bounds
\* Spec: the round lifecycle with restarts, one request in flight at a time
MaxUsers == 1       \* distinct chat users
MaxInFlight == 1    \* /confirm-payment requests awaiting at the same time
MaxRef == 2         \* distinct payment references
MaxAccepts == 1     \* payment notifications of a new reference
MaxDups == 1        \* payment notifications repeating an earlier reference
MaxVotes == 1       \* vote callbacks that count
MaxCycles == 2      \* calls of startNewCycle
MaxCrashes == 1     \* process restarts
\* SpecPay: overlapping payment requests in one submission phase
PayUsers == 1
PayInFlight == 2
PayRef == 2
PayAccepts == 2
PayDups == 1
\* SpecRound: the settlement of one round
RoundUploaders == 3 \* paid uploads when voting starts
RoundVoters == 1    \* paid vote-only users when voting starts
RoundVotes == 2     \* vote callbacks that count
\* SpecSettle: one payment request from its body to its settlement
SettleUsers == 1
SettleRefs == 1
SettleAccepts == 1
SettleDups == 1
MaxRejects == 1     \* requests answered 400
\* SpecBonus: a first round with overlapping payments, up to its settlement
BonusUsers == 1
BonusInFlight == 2
BonusRefs == 2
BonusAccepts == 2
BonusCycles == 1
\* SpecTally: the settlement of a round whose votes are in
TallyUploaders == 6 \* paid uploads when voting ends
\* SpecReward: the votes and the settlement of a round with vote-only users
RewardUploaders == 2
RewardVoters == 2
RewardVotes == 3
\* SpecTier: the tier selection over the accepted amounts
TierFine == 120     \* every amount up to 0.120 SOL, in steps of 0.001
TierCoarse == 110   \* then up to 5.500 SOL in steps of 0.050
\* SpecSweep: rounds nobody pays in
SweepUsers == 2
SweepRefs == 3

FeeUsers == 1
FeeRefs == 2
FeeAccepts == 2

CycleUsers == 1
CycleRefs == 2
CycleAccepts == 1
CycleVotes == 1

Largest(a, b) == IF a > b THEN a ELSE b
MaxPayers ==
  Largest(TallyUploaders,
          Largest(RoundUploaders + RoundVoters, RewardUploaders + RewardVoters))
Users == 1 .. MaxPayers
Refs == 1 .. MaxPayers
\* the vote counts a track may end the voting phase with
TallyVotes == {0, 3, 5}
\* 0.03 SOL (Basic) and 5 SOL (Whale, clamped): on these the tier factors are
\* dyadic, so the code's double arithmetic and the exact arithmetic agree.
Amounts == {30, 5000}
\* XPOSURE the treasury token account holds when the process first starts
InitialBalances == {0, 1000}
\* tokens a market purchase of remainingSOL adds to the treasury account: the
\* market pays one XPOSURE per 0.001 SOL throughout
Bought(remainingSOL) == {remainingSOL}

\* votedFor: null
NoUser == 0
\* a budget of cycles that is never used up
Unbounded == -1
\* the choice of an entry pushed by /confirm-payment (undefined)
NoChoice == "none"
Idle == [pc |-> "idle"]

\* ------------------------------------------------------------ tiers
RetDen == 45000
MultDen == 90000

\* a band selection whose thresholds belong to the band below
getTierAbove(amount) ==
  IF amount > 500 THEN "WHALE"
  ELSE IF amount > 100 THEN "HIGH"
  ELSE IF amount > 50 THEN "MID"
  ELSE "BASIC"

\* getTier: the first band, from the top, whose min the amount reaches
getTier(amount) ==
  IF amount >= 500 THEN "WHALE"
  ELSE IF amount >= 100 THEN "HIGH"
  ELSE IF amount >= 50 THEN "MID"
  ELSE "BASIC"

TierRetention(t) ==
  CASE t = "BASIC" -> 22500
    [] t = "MID" -> 24750
    [] t = "HIGH" -> 27000
    [] t = "WHALE" -> 29250

TierMultiplier(t) ==
  CASE t = "BASIC" -> 90000
    [] t = "MID" -> 94500
    [] t = "HIGH" -> 99000
    [] t = "WHALE" -> 103500

\* 0.65 + ((amount - 0.50) / 4.50) * 0.10, over RetDen
getWhaleRetention(amount) ==
  IF amount < 500 THEN 29250
  ELSE IF amount >= 5000 THEN 33750
  ELSE 29250 + (amount - 500)

\* an interpolation that starts from 1.0 at 0.50 SOL
getWhaleMultiplierFromOne(amount) ==
  IF amount < 500 THEN 103500
  ELSE IF amount >= 5000 THEN 135000
  ELSE 90000 + 10 * (amount - 500)

\* 1.15 + ((amount - 0.50) / 4.50) * 0.35, over MultDen
getWhaleMultiplier(amount) ==
  IF amount < 500 THEN 103500
  ELSE IF amount >= 5000 THEN 135000
  ELSE 103500 + 7 * (amount - 500)

\* retention used by /confirm-payment, numerator over RetDen
RetentionOf(amount) ==
  IF getTier(amount) = "WHALE" THEN getWhaleRetention(amount)
  ELSE TierRetention(getTier(amount))

\* multiplier used by /confirm-payment, numerator over MultDen
MultiplierOf(amount) ==
  IF getTier(amount) = "WHALE" THEN getWhaleMultiplier(amount)
  ELSE TierMultiplier(getTier(amount))

\* ------------------------------------------------------------ splits
\* remainingSOL = amountNum * 0.90
RemainingSOL(amount) == (amount * 9) \div 10

\* userXPOSURE = Math.floor(totalXPOSURE * retention)
UserShare(total, amount) == (total * RetentionOf(amount)) \div RetDen

\* competitionXPOSURE = totalXPOSURE - userXPOSURE
CompetitionShare(total, amount) == total - UserShare(total, amount)

\* roundPool = Math.floor(competitionXPOSURE * 0.65)
RoundPoolShare(comp) == (comp * 65) \div 100

\* permanentTreasury = competitionXPOSURE - roundPool
PermanentShare(comp) == comp - RoundPoolShare(comp)

\* ------------------------------------------------------------ state
VARIABLES
  phase,                 \* "submission" | "voting" | "cooldown"
  cycleStartTime,        \* 0 is null, 1 is a timestamp
  treasuryXPOSURE,       \* round prize pool
  actualTreasuryBalance, \* perpetual reserve
  transFeeCollected,     \* in units of 0.0001 SOL
  pendingPayments,
  participants,
  voters,
  disk,                  \* SAVE_FILE: NoFile or the last snapshot written
  chainBalance,          \* XPOSURE held by the treasury token account
  handlers,              \* the /confirm-payment requests that are at an await
  timer,                 \* the callback armed: "listen", "none" or a phase function
  sched,                 \* the phase function that is at an await, with its locals
  purchases,             \* history: market purchases executed, per reference
  credits,               \* history: treasury credits applied, per reference
  usedRefs,              \* history: references seen so far
  epoch,                 \* history: resets of pendingPayments so far
  round,                 \* history: what the current round has been through:
                         \* "new", "afterSkip", "voting", "skipped", "settling",
                         \* "settled"
  env,                   \* what the environment may still do, see Budget
  request,               \* history: the last /confirm-payment body that was
                         \* validated, and the status it was answered with
  market,                \* history: the last buyXPOSUREOnMarket call
  tier,                  \* history: the last tier selection of
                         \* /confirm-payment, with the amount it was made for
  feeWallet              \* history: what TRANS_FEE_WALLET has received, in
                         \* units of 0.0001 SOL

memvars == <<phase, cycleStartTime, treasuryXPOSURE, actualTreasuryBalance,
             transFeeCollected, pendingPayments, participants, voters>>
histvars == <<purchases, credits, usedRefs, epoch, round, env>>
obsvars == <<request, market, tier, feeWallet>>
vars == <<memvars, disk, chainBalance, handlers, timer, sched, histvars, obsvars>>

NoFile == [exists |-> FALSE]

\* no request validated yet; rejected counts the requests answered 400
NoRequest == [body |-> <<>>, status |-> 0, error |-> "", rejected |-> 0]

\* no tier selected yet
NoTier == [amount |-> 0, tier |-> "none", retention |-> 0, multiplier |-> 0]

\* buyXPOSUREOnMarket not called yet
NoMarket == [account |-> "none", tried |-> <<>>, ok |-> FALSE, returned |-> 0]

\* the object saveState serialises
Snapshot(ps, vs, ph, cst, pool, reserve, fee, pend) ==
  [exists |-> TRUE, participants |-> ps, voters |-> vs, phase |-> ph,
   cycleStartTime |-> cst, treasuryXPOSURE |-> pool,
   actualTreasuryBalance |-> reserve, transFeeCollected |-> fee,
   pendingPayments |-> pend]

\* saveState() of the state the action leaves
saveState ==
  disk' = Snapshot(participants', voters', phase', cycleStartTime',
                   treasuryXPOSURE', actualTreasuryBalance',
                   transFeeCollected', pendingPayments')

\* saveState() of the state the action starts in
InMemory ==
  Snapshot(participants, voters, phase, cycleStartTime, treasuryXPOSURE,
           actualTreasuryBalance, transFeeCollected, pendingPayments)

Up == timer # "listen"

\* Array.find over the indices idx that satisfy the callback: the first of
\* them, 0 when there is none
First(idx) ==
  IF idx = {} THEN 0 ELSE CHOOSE i \in idx : \A j \in idx : i <= j

\* pend.find(p => p.reference === reference), as an index
EntryOf(pend, reference) ==
  First({k \in 1 .. Len(pend) : pend[k].reference = reference})

\* seq s without its element i
RemoveAt(s, i) == [k \in 1 .. Len(s) - 1 |-> IF k < i THEN s[k] ELSE s[k + 1]]

\* participants.filter(p => p.choice === "upload" && p.paid)
Uploaders(ps) == SelectSeq(ps, LAMBDA p : p.choice = "upload" /\ p.paid)

\* Users are interchangeable: a user id is one the process already holds, or
\* the lowest one it does not
KnownUsers ==
  {pendingPayments[i].userId : i \in 1 .. Len(pendingPayments)}
    \cup {participants[i].userId : i \in 1 .. Len(participants)}
    \cup {voters[i].userId : i \in 1 .. Len(voters)}
    \cup {handlers[i].userId : i \in 1 .. Len(handlers)}
    \cup UNION {participants[i].voters : i \in 1 .. Len(participants)}

\* references are interchangeable: a new one is the lowest not yet seen
FreshRef(reference) ==
  /\ reference <= env.refs
  /\ reference \notin usedRefs
  /\ \A r \in Refs : r < reference => r \in usedRefs

UserInput(u) ==
  /\ u <= env.users
  /\ u \in KnownUsers \/ \A w \in Users : w < u => w \in KnownUsers

\* the environment of a run: the chat users and the amounts paid, the number
\* of requests in flight, the references notified so far, and how many
\* distinct references (refs), notifications of a new reference (accepts),
\* notifications repeating an earlier reference (dups), votes, cycles and
\* restarts are still to come
Budget(users, amounts, inflight, refs, accepts, dups, votes, cycles, crashes) ==
  [users |-> users, amounts |-> amounts, inflight |-> inflight, refs |-> refs,
   accepts |-> accepts, dups |-> dups, votes |-> votes, cycles |-> cycles,
   crashes |-> crashes, notified |-> {}]

\* the module's initial state, before the app.listen callback
Start(balances, budget) ==
  /\ phase = "submission"
  /\ cycleStartTime = 0
  /\ treasuryXPOSURE = 0
  /\ actualTreasuryBalance = 0
  /\ transFeeCollected = 0
  /\ pendingPayments = <<>>
  /\ participants = <<>>
  /\ voters = <<>>
  /\ disk = NoFile
  /\ chainBalance \in balances
  /\ handlers = <<>>
  /\ timer = "listen"
  /\ sched = Idle
  /\ purchases = [r \in Refs |-> 0]
  /\ credits = [r \in Refs |-> 0]
  /\ usedRefs = {}
  /\ epoch = 0
  /\ round = "new"
  /\ env = budget
  /\ request = NoRequest
  /\ market = NoMarket
  /\ tier = NoTier
  /\ feeWallet = 0

Init == Start({0}, Budget(MaxUsers, Amounts, MaxInFlight, MaxRef, MaxAccepts,
                          MaxDups, MaxVotes, MaxCycles, MaxCrashes))

InitPay == Start(InitialBalances, Budget(PayUsers, Amounts, PayInFlight, PayRef,
                                         PayAccepts, PayDups, 0, 0, 0))

\* ------------------------------------------------------------ startup
\* a recovery that starts a new cycle whatever the loaded phase
RecoveryTimerNewCycle(cst, ph) == "startNewCycle"

\* the timer the startup recovery arms for a loaded phase
RecoveryTimer(cst, ph) ==
  IF cst = 0 \/ ph = "cooldown" THEN "startNewCycle"
  ELSE IF ph = "submission" THEN "startVoting"
  ELSE IF ph = "voting" THEN "announceWinners"
  ELSE "none"

\* app.listen callback: loadState, treasury balance initialisation, recovery.
\* fetched is what getActualTreasuryBalance returns: the chain balance, or the
\* tracked value when the query throws.
Listen ==
  /\ UNCHANGED obsvars
  /\ timer = "listen"
  /\ LET d == disk IN
     /\ participants' = IF d.exists THEN d.participants ELSE participants
     /\ voters' = IF d.exists THEN d.voters ELSE voters
     /\ phase' = IF d.exists THEN d.phase ELSE phase
     /\ cycleStartTime' = IF d.exists THEN d.cycleStartTime ELSE cycleStartTime
     /\ treasuryXPOSURE' = IF d.exists THEN d.treasuryXPOSURE ELSE treasuryXPOSURE
     /\ transFeeCollected' = IF d.exists THEN d.transFeeCollected ELSE transFeeCollected
     /\ pendingPayments' = IF d.exists THEN d.pendingPayments ELSE pendingPayments
     /\ LET loaded == IF d.exists THEN d.actualTreasuryBalance ELSE actualTreasuryBalance IN
        IF loaded = 0
        THEN /\ \E fetched \in {chainBalance, loaded} : actualTreasuryBalance' = fetched
             /\ saveState
        ELSE /\ actualTreasuryBalance' = loaded
             /\ UNCHANGED disk
  /\ timer' = RecoveryTimer(cycleStartTime', phase')
  /\ UNCHANGED <<chainBalance, handlers, sched, histvars>>

\* the process dies (and is started again): memory is the module's initial
\* state, every handler and timer is gone, the file and the chain remain
Crash ==
  /\ UNCHANGED obsvars
  /\ Up
  /\ env.crashes > 0
  /\ env' = [env EXCEPT !.crashes = @ - 1]
  /\ phase' = "submission"
  /\ cycleStartTime' = 0
  /\ treasuryXPOSURE' = 0
  /\ actualTreasuryBalance' = 0
  /\ transFeeCollected' = 0
  /\ pendingPayments' = <<>>
  /\ participants' = <<>>
  /\ voters' = <<>>
  /\ handlers' = <<>>
  /\ timer' = "listen"
  /\ sched' = Idle
  /\ UNCHANGED <<disk, chainBalance, purchases, credits, usedRefs, epoch, round>>

\* SIGTERM or SIGINT: gracefulShutdown saves the state and exits (and the
\* process is started again)
GracefulShutdown ==
  /\ UNCHANGED obsvars
  /\ Up
  /\ env.crashes > 0
  /\ env' = [env EXCEPT !.crashes = @ - 1]
  /\ disk' = InMemory
  /\ phase' = "submission"
  /\ cycleStartTime' = 0
  /\ treasuryXPOSURE' = 0
  /\ actualTreasuryBalance' = 0
  /\ transFeeCollected' = 0
  /\ pendingPayments' = <<>>
  /\ participants' = <<>>
  /\ voters' = <<>>
  /\ handlers' = <<>>
  /\ timer' = "listen"
  /\ sched' = Idle
  /\ UNCHANGED <<chainBalance, purchases, credits, usedRefs, epoch, round>>

\* ------------------------------------------------------------ chat callbacks
\* callback_query "start_<action>_<userKey>"
StartChoice(userKey, action) ==
  /\ UNCHANGED obsvars
  /\ Up
  /\ UserInput(userKey)
  /\ phase = "submission"
  /\ \E reference \in Refs :
       /\ FreshRef(reference)
       /\ usedRefs' = usedRefs \cup {reference}
       /\ pendingPayments' = Append(pendingPayments,
            [userId |-> userKey, choice |-> action, reference |-> reference,
             confirmed |-> FALSE, paid |-> FALSE, track |-> FALSE, ep |-> epoch])
  /\ UNCHANGED <<phase, cycleStartTime, treasuryXPOSURE, actualTreasuryBalance,
                 transFeeCollected, participants, voters, chainBalance,
                 handlers, timer, sched, purchases, credits, epoch, round,
                 env>>
  /\ saveState

\* bot.on("message") with msg.audio
AttachAudio(userId) ==
  /\ UNCHANGED obsvars
  /\ Up
  /\ phase = "submission"
  /\ LET i == First({k \in 1 .. Len(pendingPayments) :
                       /\ pendingPayments[k].userId = userId
                       /\ pendingPayments[k].choice = "upload"
                       /\ ~pendingPayments[k].paid}) IN
     /\ i # 0
     /\ ~pendingPayments[i].track
     /\ First({k \in 1 .. Len(participants) : participants[k].userId = userId}) = 0
     /\ pendingPayments' = [pendingPayments EXCEPT ![i].track = TRUE]
  /\ UNCHANGED <<phase, cycleStartTime, treasuryXPOSURE, actualTreasuryBalance,
                 transFeeCollected, participants, voters, chainBalance, handlers,
                 timer, sched, histvars>>
  /\ saveState

\* a vote callback that counts a vote of a user already among the voters
CastVoteAgain(voterId, targetId) ==
  /\ UNCHANGED obsvars
  /\ Up
  /\ UserInput(voterId)
  /\ LET i == First({k \in 1 .. Len(participants) : participants[k].userId = targetId})
         v == First({k \in 1 .. Len(voters) : voters[k].userId = voterId}) IN
     /\ i # 0
     /\ env.votes > 0
     /\ env' = [env EXCEPT !.votes = @ - 1]
     /\ participants' = [participants EXCEPT ![i].votes = @ + 1,
                                             ![i].voters = @ \cup {voterId}]
     /\ voters' = IF v # 0 THEN [voters EXCEPT ![v].votedFor = targetId] ELSE voters
  /\ UNCHANGED <<phase, cycleStartTime, treasuryXPOSURE, actualTreasuryBalance,
                 transFeeCollected, pendingPayments, chainBalance, handlers,
                 timer, sched, purchases, credits, usedRefs, epoch, round>>
  /\ saveState

\* callback_query "vote_<targetId>" from voterId
CastVote(voterId, targetId) ==
  /\ UNCHANGED obsvars
  /\ Up
  /\ UserInput(voterId)
  /\ LET i == First({k \in 1 .. Len(participants) : participants[k].userId = targetId})
         v == First({k \in 1 .. Len(voters) : voters[k].userId = voterId}) IN
     /\ i # 0
     /\ voterId \notin participants[i].voters
     /\ env.votes > 0
     /\ env' = [env EXCEPT !.votes = @ - 1]
     /\ participants' = [participants EXCEPT ![i].votes = @ + 1,
                                             ![i].voters = @ \cup {voterId}]
     /\ voters' = IF v # 0 THEN [voters EXCEPT ![v].votedFor = targetId] ELSE voters
  /\ UNCHANGED <<phase, cycleStartTime, treasuryXPOSURE, actualTreasuryBalance,
                 transFeeCollected, pendingPayments, chainBalance, handlers,
                 timer, sched, purchases, credits, usedRefs, epoch, round>>
  /\ saveState

\* ------------------------------------------------------------ /confirm-payment
Abs(n) == IF n < 0 THEN -n ELSE n

Handlers == 1 .. Len(handlers)

\* a duplicate check that lets every notification through
IsDuplicateNever(pend, reference) == FALSE

\* the duplicate check: the first entry with the reference is marked confirmed
IsDuplicate(pend, reference) ==
  LET i == EntryOf(pend, reference) IN
  i # 0 /\ pend[i].confirmed

\* request for a reference already processed: "Already processed", nothing else
AlreadyProcessed(reference, userId, amount) ==
  /\ UNCHANGED <<market, tier, feeWallet>>
  /\ Up
  /\ UserInput(userId)
  /\ IsDuplicate(pendingPayments, reference)
  /\ env.dups > 0
  /\ env' = [env EXCEPT !.dups = @ - 1]
  /\ UNCHANGED <<memvars, disk, chainBalance, handlers, timer, sched, purchases,
                 credits, usedRefs, epoch, round>>

\* request accepted: validation passed, not a duplicate; mark confirmed (or
\* push a confirmed entry), tier; runs to the await of the trans-fee transfer
ConfirmPayment(reference, userId, amount) ==
  /\ UNCHANGED <<market, tier, feeWallet>>
  /\ Up
  /\ UserInput(userId)
  /\ reference \in usedRefs \/ FreshRef(reference)
  /\ ~IsDuplicate(pendingPayments, reference)
  /\ amount \in env.amounts
  /\ Len(handlers) < env.inflight
  /\ IF reference \in env.notified
     THEN /\ env.dups > 0
          /\ env' = [env EXCEPT !.dups = @ - 1]
     ELSE /\ env.accepts > 0
          /\ env' = [env EXCEPT !.accepts = @ - 1,
                                !.notified = @ \cup {reference}]
  /\ usedRefs' = usedRefs \cup {reference}
  /\ LET i == EntryOf(pendingPayments, reference) IN
     pendingPayments' =
       IF i # 0
       THEN [pendingPayments EXCEPT ![i].confirmed = TRUE]
       ELSE Append(pendingPayments,
              [userId |-> userId, choice |-> NoChoice, reference |-> reference,
               confirmed |-> TRUE, paid |-> FALSE, track |-> FALSE, ep |-> epoch])
  /\ handlers' = Append(handlers,
       [pc |-> "before", reference |-> reference, userId |-> userId,
        amount |-> amount, balanceBefore |-> 0, total |-> 0, ep |-> epoch,
        payEp |-> -1])
  /\ UNCHANGED <<phase, cycleStartTime, treasuryXPOSURE, actualTreasuryBalance,
                 transFeeCollected, participants, voters, disk,
                 chainBalance, timer, sched, purchases, credits, epoch,
                 round>>

\* ------------------------------------------------------------ validation
\* A request body: reference and userId are 0 when the field is absent (or
\* falsy), senderWallet is "absent", "invalid" (new PublicKey throws) or
\* "valid", amount is the text of the field, one character per element.
DigitChars == <<"0", "1", "2", "3", "4", "5", "6", "7", "8", "9">>

IsDigit(c) == \E k \in 1 .. 10 : DigitChars[k] = c

DigitVal(c) == (CHOOSE k \in 1 .. 10 : DigitChars[k] = c) - 1

RECURSIVE Pow10(_)
Pow10(n) == IF n = 0 THEN 1 ELSE 10 * Pow10(n - 1)

\* the run of digits of s from position i on: its value appended to val,
\* the number of digits read and the position after them
RECURSIVE ReadDigits(_, _, _, _)
ReadDigits(s, i, val, n) ==
  IF i <= Len(s) /\ IsDigit(s[i])
  THEN ReadDigits(s, i + 1, 10 * val + DigitVal(s[i]), n + 1)
  ELSE [val |-> val, n |-> n, next |-> i]

RECURSIVE SkipSpaces(_, _)
SkipSpaces(s, i) == IF i <= Len(s) /\ s[i] = " " THEN SkipSpaces(s, i + 1) ELSE i

\* parseFloat(text): the longest prefix that is a decimal literal, after the
\* leading white space; whatever follows it is ignored.  The value is
\* num / den; nan when there is no such prefix.
parseFloat(s) ==
  LET start == SkipSpaces(s, 1)
      signed == start <= Len(s) /\ s[start] \in {"-", "+"}
      negative == signed /\ s[start] = "-"
      int == ReadDigits(s, IF signed THEN start + 1 ELSE start, 0, 0)
      dotted == int.next <= Len(s) /\ s[int.next] = "."
      frac == IF dotted THEN ReadDigits(s, int.next + 1, int.val, 0)
              ELSE [val |-> int.val, n |-> 0, next |-> int.next] IN
  IF int.n = 0 /\ frac.n = 0
  THEN [nan |-> TRUE, num |-> 0, den |-> 1, next |-> start]
  ELSE [nan |-> FALSE, num |-> IF negative THEN -frac.val ELSE frac.val,
        den |-> Pow10(frac.n), next |-> frac.next]

\* amountNum in the unit of Amounts, 0.001 SOL
AmountUnits(v) == (v.num * 1000) \div v.den

\* the validation of /confirm-payment: the error it answers, "" when it passes
Validation(body) ==
  LET amountNum == parseFloat(body.amount) IN
  IF body.userId = 0 \/ body.reference = 0 \/ body.senderWallet = "absent"
  THEN "Missing required fields"
  ELSE IF \/ amountNum.nan
          \/ amountNum.num * 1000 < amountNum.den
          \/ amountNum.num > 100 * amountNum.den
  THEN "Invalid amount (must be 0.001-100 SOL)"
  ELSE IF body.senderWallet = "invalid" THEN "Invalid wallet address"
  ELSE ""

\* the texts of the amount field that are tried
RawAmounts ==
  {<<"5">>, <<"0", ".", "0", "3">>, <<"5", "x">>, <<"x", "5">>, <<>>, <<"0">>,
   <<"-", "5">>, <<"1", "0", "1">>, <<"0", ".", "0", "0", "0", "9">>}

\* the bodies that are tried: a well-formed reference, userId and wallet
\* with each amount text, and a well-formed body but for one field
Bodies ==
  UNION {
    [reference : {r}, userId : {u}, senderWallet : {"valid"}, amount : RawAmounts]
      \cup [reference : {0, r}, userId : {0, u},
            senderWallet : {"absent", "invalid", "valid"}, amount : {<<"5">>}]
    : r \in 1 .. SettleRefs, u \in 1 .. SettleUsers}

\* POST /confirm-payment with body: 400 and the error when validation fails,
\* else the duplicate check and the acceptance
Request(body) ==
  LET error == Validation(body)
      amountNum == AmountUnits(parseFloat(body.amount)) IN
  IF error # ""
  THEN /\ Up
       /\ body.reference # 0 => body.reference \in usedRefs \/ FreshRef(body.reference)
       /\ body.userId # 0 => UserInput(body.userId)
       /\ request.rejected < MaxRejects
       /\ request' = [body |-> body, status |-> 400, error |-> error,
                      rejected |-> request.rejected + 1]
       /\ UNCHANGED <<memvars, disk, chainBalance, handlers, timer, sched,
                      histvars, market, tier, feeWallet>>
  ELSE /\ \/ AlreadyProcessed(body.reference, body.userId, amountNum)
          \/ ConfirmPayment(body.reference, body.userId, amountNum)
       /\ request' = [request EXCEPT !.body = body, !.status = 200, !.error = ""]

\* sendSOLPayout returned (it catches its own errors): transFeeCollected +=
\* transFee; then the treasury balance BEFORE the purchase, 0 when the query
\* throws
BeforeRead(h) ==
  /\ UNCHANGED <<request, market, tier>>
  /\ Up
  /\ handlers[h].pc = "before"
  /\ transFeeCollected' = transFeeCollected + handlers[h].amount
  /\ \E before \in {chainBalance, 0} :
       handlers' = [handlers EXCEPT ![h].pc = "buy", ![h].balanceBefore = before]
  /\ UNCHANGED <<phase, cycleStartTime, treasuryXPOSURE, actualTreasuryBalance,
                 pendingPayments, participants, voters, disk, chainBalance, timer,
                 sched, histvars>>

\* sendSOLPayout(destination, amountSOL): what reaches the destination.  The
\* transaction is confirmed, or a step of it throws; the function catches the
\* error, logs it and returns like after a confirmed transfer.
sendSOLPayout(confirmed, amountSOL) == IF confirmed THEN amountSOL ELSE 0

\* the await of sendSOLPayout(TRANS_FEE_WALLET, transFee) for request h with
\* its outcome, then as BeforeRead
TransFee(h, confirmed) ==
  /\ BeforeRead(h)
  /\ feeWallet' = feeWallet + sendSOLPayout(confirmed, handlers[h].amount)

\* buyXPOSUREOnMarket returned: the purchase landed in the treasury account
BuyOk(h) ==
  /\ UNCHANGED <<request, tier, feeWallet>>
  /\ Up
  /\ handlers[h].pc = "buy"
  /\ \E b \in Bought(RemainingSOL(handlers[h].amount)) :
       chainBalance' = chainBalance + b
  /\ purchases' = [purchases EXCEPT ![handlers[h].reference] = @ + 1]
  /\ handlers' = [handlers EXCEPT ![h].pc = "after"]
  /\ UNCHANGED <<memvars, disk, timer, sched, credits, usedRefs, epoch, round,
                 env>>

\* a purchase failure that goes on to the split with totalXPOSURE 0
BuyFailGoesOn(h) ==
  /\ UNCHANGED <<request, tier, feeWallet>>
  /\ Up
  /\ handlers[h].pc = "buy"
  /\ handlers' = [handlers EXCEPT ![h].pc = "transfer", ![h].total = 0]
  /\ UNCHANGED <<memvars, disk, chainBalance, timer, sched, histvars>>

\* buyXPOSUREOnMarket threw: totalXPOSURE stays 0, the payer is told, the
\* response is "XPOSURE purchase failed", no save
BuyFail(h) ==
  /\ UNCHANGED <<request, tier, feeWallet>>
  /\ Up
  /\ handlers[h].pc = "buy"
  /\ handlers' = RemoveAt(handlers, h)
  /\ UNCHANGED <<memvars, disk, chainBalance, timer, sched, histvars>>

\* ------------------------------------------------------------ market
\* what getAccountInfo shows of the bonding-curve account: "absent" (null),
\* "complete" (data[8] = 1), "open", or "error" when the query throws
Accounts == {"absent", "complete", "open", "error"}

\* a venue function buys and returns, or throws
Outcomes == {"ok", "throws"}

\* the outAmount of a Jupiter quote for remainingSOL: what the order then
\* delivers, or one token more (slippage)
Quotes(remainingSOL) == {remainingSOL, remainingSOL + 1}

\* checkIfBonded: graduated unless the account is there and not complete
checkIfBonded(account) == account # "open"

\* buyXPOSUREOnMarket: the venues it calls, in order, and whether it returns
buyXPOSUREOnMarket(isBonded, pump, jupiter) ==
  IF isBonded THEN [tried |-> <<"jupiter">>, ok |-> jupiter = "ok"]
  ELSE IF pump = "ok" THEN [tried |-> <<"pump">>, ok |-> TRUE]
  ELSE [tried |-> <<"pump", "jupiter">>, ok |-> jupiter = "ok"]

\* the await of buyXPOSUREOnMarket(remainingSOL) for request h, venue by
\* venue.  buyOnPumpFun returns the whole treasury balance after the order,
\* buyOnJupiter the quoted outAmount.
MarketPurchase(h, account, pump, jupiter, quoted) ==
  LET call == buyXPOSUREOnMarket(checkIfBonded(account), pump, jupiter) IN
  IF call.ok
  THEN /\ BuyOk(h)
       /\ market' = [account |-> account, tried |-> call.tried, ok |-> TRUE,
                     returned |-> IF call.tried[Len(call.tried)] = "pump"
                                  THEN chainBalance' ELSE quoted]
  ELSE /\ BuyFail(h)
       /\ market' = [account |-> account, tried |-> call.tried, ok |-> FALSE,
                     returned |-> 0]

\* a receipt that takes what the venue function returned
AfterReadReturned(h) ==
  /\ UNCHANGED obsvars
  /\ Up
  /\ handlers[h].pc = "after"
  /\ LET totalXPOSURE == market.returned IN
       IF totalXPOSURE = 0
       THEN handlers' = RemoveAt(handlers, h)
       ELSE handlers' = [handlers EXCEPT ![h].pc = "transfer",
                                         ![h].total = totalXPOSURE]
  /\ UNCHANGED <<memvars, disk, chainBalance, timer, sched, histvars>>

\* treasury balance AFTER the purchase: totalXPOSURE = balanceAfter - balanceBefore;
\* a throwing query or a delta of 0 takes the purchase-failed return
AfterRead(h) ==
  /\ UNCHANGED obsvars
  /\ Up
  /\ handlers[h].pc = "after"
  /\ \E ok \in BOOLEAN :
       LET totalXPOSURE == IF ok THEN chainBalance - handlers[h].balanceBefore ELSE 0 IN
       IF totalXPOSURE = 0
       THEN handlers' = RemoveAt(handlers, h)
       ELSE handlers' = [handlers EXCEPT ![h].pc = "transfer",
                                         ![h].total = totalXPOSURE]
  /\ UNCHANGED <<memvars, disk, chainBalance, timer, sched, histvars>>

\* a registration that follows the choice whether or not a track is attached
RegisteredByChoice(hd, payment) ==
  LET userChoice == IF payment.choice = NoChoice THEN "vote" ELSE payment.choice IN
  IF userChoice = "upload"
  THEN [kind |-> "participant",
        rec |-> [userId |-> hd.userId, amount |-> hd.amount,
                 multiplier |-> MultiplierOf(hd.amount), paid |-> TRUE,
                 ref |-> hd.reference, ep |-> hd.ep,
                 choice |-> "upload", votes |-> 0, voters |-> {}]]
  ELSE [kind |-> "voter",
        rec |-> [userId |-> hd.userId, amount |-> hd.amount,
                 multiplier |-> MultiplierOf(hd.amount), paid |-> TRUE,
                 ref |-> hd.reference, ep |-> hd.ep,
                 choice |-> "vote", votedFor |-> NoUser]]

\* the record /confirm-payment registers (userData and the choice fields);
\* ref and ep are history: the reference and the epoch of its acceptance
Registered(hd, payment) ==
  LET userChoice == IF payment.choice = NoChoice THEN "vote" ELSE payment.choice IN
  IF userChoice = "upload" /\ payment.track
  THEN [kind |-> "participant",
        rec |-> [userId |-> hd.userId, amount |-> hd.amount,
                 multiplier |-> MultiplierOf(hd.amount), paid |-> TRUE,
                 ref |-> hd.reference, ep |-> hd.ep,
                 choice |-> "upload", votes |-> 0, voters |-> {}]]
  ELSE [kind |-> "voter",
        rec |-> [userId |-> hd.userId, amount |-> hd.amount,
                 multiplier |-> MultiplierOf(hd.amount), paid |-> TRUE,
                 ref |-> hd.reference, ep |-> hd.ep,
                 choice |-> "vote", votedFor |-> NoUser]]

\* transferTokensToRecipient returned true: pool split, registration; runs to
\* the awaits of the notifications.  The transfer instruction carries an
\* unsigned amount: a build that accepts a negative userXPOSURE moves its
\* magnitude, a build that rejects it takes TransferFail.
TransferOk(h) ==
  /\ UNCHANGED obsvars
  /\ Up
  /\ handlers[h].pc = "transfer"
  /\ LET hd == handlers[h]
         userXPOSURE == UserShare(hd.total, hd.amount)
         competitionXPOSURE == CompetitionShare(hd.total, hd.amount)
         i == EntryOf(pendingPayments, hd.reference)
         payment == IF i # 0 THEN pendingPayments[i]
                    ELSE [choice |-> NoChoice, track |-> FALSE, ep |-> -1]
         reg == Registered(hd, payment) IN
     /\ chainBalance >= Abs(userXPOSURE)
     /\ chainBalance' = chainBalance - Abs(userXPOSURE)
     /\ treasuryXPOSURE' = treasuryXPOSURE + RoundPoolShare(competitionXPOSURE)
     /\ actualTreasuryBalance' =
          actualTreasuryBalance + PermanentShare(competitionXPOSURE)
     /\ credits' = [credits EXCEPT ![hd.reference] = @ + 1]
     /\ participants' = IF reg.kind = "participant"
                        THEN Append(participants, reg.rec) ELSE participants
     /\ voters' = IF reg.kind = "voter" THEN Append(voters, reg.rec) ELSE voters
     /\ handlers' = [handlers EXCEPT ![h].pc = "notify", ![h].payEp = payment.ep]
  /\ UNCHANGED <<phase, cycleStartTime, transFeeCollected, pendingPayments,
                 disk, timer, sched, purchases, usedRefs, epoch, round,
                 env>>

\* transferTokensToRecipient returned false: the payer is told, the response
\* is "Transfer failed", no credit, no save
TransferFail(h) ==
  /\ UNCHANGED obsvars
  /\ Up
  /\ handlers[h].pc = "transfer"
  /\ handlers' = RemoveAt(handlers, h)
  /\ UNCHANGED <<memvars, disk, chainBalance, timer, sched, histvars>>

\* the notifications returned: payment.paid = true on the entry found before
\* them (if it is still in pendingPayments), saveState, response ok
Finish(h) ==
  /\ UNCHANGED obsvars
  /\ Up
  /\ handlers[h].pc = "notify"
  /\ LET hd == handlers[h]
         i == First({k \in 1 .. Len(pendingPayments) :
                       /\ pendingPayments[k].reference = hd.reference
                       /\ pendingPayments[k].ep = hd.payEp}) IN
     pendingPayments' = IF i # 0 THEN [pendingPayments EXCEPT ![i].paid = TRUE]
                        ELSE pendingPayments
  /\ handlers' = RemoveAt(handlers, h)
  /\ UNCHANGED <<phase, cycleStartTime, treasuryXPOSURE, actualTreasuryBalance,
                 transFeeCollected, participants, voters, chainBalance, timer,
                 sched, histvars>>
  /\ saveState

\* ------------------------------------------------------------ treasury bonus
\* percentage of the reserve paid as bonus, in percent
getTreasuryBonusPercentage(balance) ==
  IF balance < 100000 THEN 20
  ELSE IF balance < 500000 THEN 15
  ELSE IF balance < 1000000 THEN 10
  ELSE IF balance < 5000000 THEN 5
  ELSE 2

\* Math.floor(actualTreasuryBalance * percentage)
calculateTreasuryBonus(balance) ==
  (balance * getTreasuryBonusPercentage(balance)) \div 100

\* ------------------------------------------------------------ phase functions
\* a notification whose failure leaves the phase function before its setTimeout
setTimeoutUnlessThrown(threw, callback) == IF threw THEN "none" ELSE callback

\* the callback a phase function arms with setTimeout after its notifications
\* (bot.sendMessage, bot.sendAudio): each sits in a try/catch, so the timer is
\* armed whether or not one threw
setTimeout(threw, callback) == callback

\* a startNewCycle that also empties the round pool
StartNewCycleResets ==
  /\ UNCHANGED obsvars
  /\ Up
  /\ timer = "startNewCycle"
  /\ env.cycles # 0
  /\ env' = IF env.cycles = Unbounded THEN env ELSE [env EXCEPT !.cycles = @ - 1]
  /\ phase' = "submission"
  /\ cycleStartTime' = 1
  /\ treasuryXPOSURE' = 0
  /\ timer' = "startVoting"
  /\ round' = IF round = "skipped" THEN "afterSkip" ELSE "new"
  /\ UNCHANGED <<actualTreasuryBalance, transFeeCollected,
                 pendingPayments, participants, voters, chainBalance,
                 handlers, sched, purchases, credits, usedRefs, epoch>>
  /\ saveState

\* startNewCycle: phase, timestamps, saveState, the announcement (sent, or
\* thrown and caught), timer
StartNewCycle ==
  /\ UNCHANGED obsvars
  /\ Up
  /\ timer = "startNewCycle"
  /\ env.cycles # 0
  /\ env' = IF env.cycles = Unbounded THEN env ELSE [env EXCEPT !.cycles = @ - 1]
  /\ phase' = "submission"
  /\ cycleStartTime' = 1
  /\ \E threw \in BOOLEAN : timer' = setTimeout(threw, "startVoting")
  /\ round' = IF round = "skipped" THEN "afterSkip" ELSE "new"
  /\ UNCHANGED <<treasuryXPOSURE, actualTreasuryBalance, transFeeCollected,
                 pendingPayments, participants, voters, chainBalance,
                 handlers, sched, purchases, credits, usedRefs, epoch>>
  /\ saveState

\* startVoting: the upload check, then either the wait for the no-tracks
\* message or the voting phase with its timer
StartVoting ==
  /\ UNCHANGED obsvars
  /\ Up
  /\ timer = "startVoting"
  /\ LET uploaders == Uploaders(participants) IN
     IF Len(uploaders) = 0
     THEN /\ sched' = [pc |-> "sv_skip", uploaders |-> Len(uploaders)]
          /\ timer' = "none"
          /\ UNCHANGED <<memvars, disk, round>>
     ELSE /\ phase' = "voting"
          /\ \E threw \in BOOLEAN : timer' = setTimeout(threw, "announceWinners")
          /\ round' = "voting"
          /\ UNCHANGED <<cycleStartTime, treasuryXPOSURE, actualTreasuryBalance,
                 transFeeCollected, pendingPayments, participants, voters,
                 sched>>
          /\ saveState
  /\ UNCHANGED <<chainBalance, handlers, purchases, credits, usedRefs, epoch,
                 env>>

\* startVoting, no uploads: the message returned or threw; cooldown,
\* saveState, timer
SkipVoting ==
  /\ UNCHANGED obsvars
  /\ Up
  /\ sched.pc = "sv_skip"
  /\ phase' = "cooldown"
  /\ \E threw \in BOOLEAN : timer' = setTimeout(threw, "startNewCycle")
  /\ sched' = Idle
  /\ round' = "skipped"
  /\ UNCHANGED <<cycleStartTime, treasuryXPOSURE, actualTreasuryBalance,
                 transFeeCollected, pendingPayments, participants, voters,
                 chainBalance, handlers, purchases, credits, usedRefs,
                 epoch, env>>
  /\ saveState

\* a sort that puts the later of two entries with equal votes first
RankLaterFirst(s, i) ==
  1 + Cardinality({j \in 1 .. Len(s) :
        s[j].votes > s[i].votes \/ (s[j].votes = s[i].votes /\ j > i)})

\* [...uploaders].sort((a, b) => b.votes - a.votes): the place of element i
\* in the stable descending order
Rank(s, i) ==
  1 + Cardinality({j \in 1 .. Len(s) :
        s[j].votes > s[i].votes \/ (s[j].votes = s[i].votes /\ j < i)})

Sorted(s) == [k \in 1 .. Len(s) |-> s[CHOOSE i \in 1 .. Len(s) : Rank(s, i) = k]]

\* weights = [0.40, 0.25, 0.20, 0.10, 0.05], in percent
Weights == <<40, 25, 20, 10, 5>>

Min(a, b) == IF a < b THEN a ELSE b

\* a prize pool that is the whole round pool
PrizePoolWhole(pool) == pool

\* Math.floor(treasuryXPOSURE * 0.80)
PrizePool(pool) == (pool * 80) \div 100

\* Math.floor(Math.floor(prizePool * weights[i]) * w.multiplier)
FinalAmt(prizePool, i, w) ==
  (((prizePool * Weights[i]) \div 100) * w.multiplier) \div MultDen

\* the winner payouts the loop sends, in order: those with finalAmt > 0.
\* amt is the amount sent, base is amt without the treasury bonus, to is the
\* winner and rank her place ("Prize #rank")
WinnerPayouts(sorted, prizePool, bonus) ==
  LET numWinners == Min(5, Len(sorted))
      pay(i) == [amt |-> FinalAmt(prizePool, i, sorted[i]) + (IF i = 1 THEN bonus ELSE 0),
                 base |-> FinalAmt(prizePool, i, sorted[i]),
                 to |-> sorted[i].userId, rank |-> i] IN
  SelectSeq([i \in 1 .. numWinners |-> pay(i)], LAMBDA x : x.amt > 0)

RECURSIVE SumAmount(_)
SumAmount(s) == IF s = <<>> THEN 0 ELSE Head(s).amount + SumAmount(Tail(s))

\* voter rewards shared by every voter who voted, whoever for
VoterPayoutsAnyVote(vs, winnerId, voterPool) ==
  LET winnerVoters == SelectSeq(vs, LAMBDA v : v.votedFor # NoUser)
      totalVoterAmount == SumAmount(winnerVoters)
      share(v) == (v.amount * voterPool) \div totalVoterAmount IN
  IF Len(winnerVoters) > 0 /\ voterPool > 0
  THEN SelectSeq([k \in 1 .. Len(winnerVoters) |->
                   [amt |-> share(winnerVoters[k]), base |-> share(winnerVoters[k]),
                    to |-> winnerVoters[k].userId, rank |-> 0]],
                 LAMBDA x : x.amt > 0)
  ELSE <<>>

\* the voter rewards the loop sends: voters of the winner, share > 0
VoterPayouts(vs, winnerId, voterPool) ==
  LET winnerVoters == SelectSeq(vs, LAMBDA v : v.votedFor = winnerId)
      totalVoterAmount == SumAmount(winnerVoters)
      share(v) == (v.amount * voterPool) \div totalVoterAmount IN
  IF Len(winnerVoters) > 0 /\ voterPool > 0
  THEN SelectSeq([k \in 1 .. Len(winnerVoters) |->
                   [amt |-> share(winnerVoters[k]), base |-> share(winnerVoters[k]),
                    to |-> winnerVoters[k].userId, rank |-> 0]],
                 LAMBDA x : x.amt > 0)
  ELSE <<>>

\* where announceWinners waits next once the winner payouts in queue are sent:
\* the next payout, else the voter rewards, else the results message
AfterWinners(queue, winnerId, voterPool, pool0, sent) ==
  IF queue # <<>>
  THEN [pc |-> "aw_winners", queue |-> queue, winnerId |-> winnerId,
        voterPool |-> voterPool, pool0 |-> pool0, sent |-> sent]
  ELSE LET vq == VoterPayouts(voters', winnerId, voterPool) IN
       IF vq # <<>>
       THEN [pc |-> "aw_voters", queue |-> vq, winnerId |-> winnerId,
             voterPool |-> voterPool, pool0 |-> pool0, sent |-> sent]
       ELSE [pc |-> "aw_results", queue |-> <<>>, winnerId |-> winnerId,
             voterPool |-> voterPool, pool0 |-> pool0, sent |-> sent]

\* announceWinners up to its first await: cooldown, saveState; with no uploads
\* the reset; else the bonus roll, the ranking and the first-place deduction
AnnounceWinners ==
  /\ UNCHANGED obsvars
  /\ Up
  /\ timer = "announceWinners"
  /\ phase' = "cooldown"
  /\ LET uploaders == Uploaders(participants) IN
     IF Len(uploaders) = 0
     THEN /\ participants' = <<>>
          /\ voters' = <<>>
          /\ treasuryXPOSURE' = 0
          /\ pendingPayments' = <<>>
          /\ epoch' = epoch + 1
          /\ timer' = "startNewCycle"
          /\ round' = "settled"
          /\ UNCHANGED <<cycleStartTime, actualTreasuryBalance, transFeeCollected,
                 sched>>
          /\ saveState
     ELSE \E wonTreasuryBonus \in BOOLEAN :
          LET treasuryBonusAmount == calculateTreasuryBonus(actualTreasuryBalance)
              sorted == Sorted(uploaders)
              prizePool == PrizePool(treasuryXPOSURE)
              voterPool == treasuryXPOSURE - prizePool
              bonus == IF wonTreasuryBonus THEN treasuryBonusAmount ELSE 0 IN
          /\ actualTreasuryBalance' = actualTreasuryBalance - bonus
          /\ UNCHANGED <<cycleStartTime, treasuryXPOSURE, transFeeCollected,
                 pendingPayments, participants, voters, epoch>>
          /\ disk' = Snapshot(participants, voters, "cooldown", cycleStartTime,
                              treasuryXPOSURE, actualTreasuryBalance,
                              transFeeCollected, pendingPayments)
          /\ timer' = "none"
          /\ round' = "settling"
          /\ sched' = AfterWinners(WinnerPayouts(sorted, prizePool, bonus),
                                   sorted[1].userId, voterPool, treasuryXPOSURE, 0)
  /\ UNCHANGED <<chainBalance, handlers, purchases, credits, usedRefs, env>>

\* a payout whose failure ends announceWinners there and then
PayoutStopsOnFailure ==
  /\ UNCHANGED obsvars
  /\ Up
  /\ sched.pc \in {"aw_winners", "aw_voters"}
  /\ LET p == Head(sched.queue) IN
     /\ \/ /\ chainBalance >= p.amt
           /\ chainBalance' = chainBalance - p.amt
           /\ sched' = IF sched.pc = "aw_winners"
                       THEN AfterWinners(Tail(sched.queue), sched.winnerId,
                                         sched.voterPool, sched.pool0,
                                         sched.sent + p.base)
                       ELSE IF Tail(sched.queue) # <<>>
                       THEN [sched EXCEPT !.queue = Tail(@), !.sent = @ + p.base]
                       ELSE [sched EXCEPT !.pc = "aw_results", !.queue = <<>>,
                                          !.sent = @ + p.base]
        \/ /\ UNCHANGED chainBalance
           /\ sched' = Idle
     /\ UNCHANGED voters
  /\ UNCHANGED <<phase, cycleStartTime, treasuryXPOSURE, actualTreasuryBalance,
                 transFeeCollected, pendingPayments, participants, disk, handlers,
                 timer, histvars>>

\* sendXPOSUREPayout and the winner's or voter's message returned; the payout
\* moved the tokens or failed (it is logged, nothing else)
Payout ==
  /\ UNCHANGED obsvars
  /\ Up
  /\ sched.pc \in {"aw_winners", "aw_voters"}
  /\ LET p == Head(sched.queue) IN
     /\ \/ /\ chainBalance >= p.amt
           /\ chainBalance' = chainBalance - p.amt
        \/ UNCHANGED chainBalance
     /\ UNCHANGED voters
     /\ sched' = IF sched.pc = "aw_winners"
                 THEN AfterWinners(Tail(sched.queue), sched.winnerId, sched.voterPool,
                                   sched.pool0, sched.sent + p.base)
                 ELSE IF Tail(sched.queue) # <<>>
                 THEN [sched EXCEPT !.queue = Tail(@), !.sent = @ + p.base]
                 ELSE [sched EXCEPT !.pc = "aw_results", !.queue = <<>>,
                                    !.sent = @ + p.base]
  /\ UNCHANGED <<phase, cycleStartTime, treasuryXPOSURE, actualTreasuryBalance,
                 transFeeCollected, pendingPayments, participants, disk, handlers,
                 timer, histvars>>

\* announceWinners after the results messages (sent, or thrown and caught):
\* the reset, saveState, timer
FinishRound ==
  /\ UNCHANGED obsvars
  /\ Up
  /\ sched.pc = "aw_results"
  /\ participants' = <<>>
  /\ voters' = <<>>
  /\ treasuryXPOSURE' = 0
  /\ pendingPayments' = <<>>
  /\ epoch' = epoch + 1
  /\ \E threw \in BOOLEAN : timer' = setTimeout(threw, "startNewCycle")
  /\ sched' = Idle
  /\ round' = "settled"
  /\ UNCHANGED <<phase, cycleStartTime, actualTreasuryBalance,
                 transFeeCollected, chainBalance, handlers, purchases,
                 credits, usedRefs, env>>
  /\ saveState

\* ------------------------------------------------------------ specification
Next ==
  \/ Listen
  \/ Crash
  \/ GracefulShutdown
  \/ \E u \in Users, a \in {"upload", "vote"} : StartChoice(u, a)
  \/ \E u \in Users : AttachAudio(u)
  \/ \E v \in Users, t \in Users : CastVote(v, t)
  \/ \E r \in Refs, u \in Users, a \in Amounts :
       AlreadyProcessed(r, u, a) /\ UNCHANGED request
  \/ \E r \in Refs, u \in Users, a \in Amounts :
       ConfirmPayment(r, u, a) /\ UNCHANGED request
  \/ \E h \in Handlers : BeforeRead(h) /\ UNCHANGED feeWallet
  \/ \E h \in Handlers : BuyOk(h) /\ UNCHANGED market
  \/ \E h \in Handlers : BuyFail(h) /\ UNCHANGED market
  \/ \E h \in Handlers : AfterRead(h)
  \/ \E h \in Handlers : TransferOk(h)
  \/ \E h \in Handlers : TransferFail(h)
  \/ \E h \in Handlers : Finish(h)
  \/ StartNewCycle
  \/ StartVoting
  \/ SkipVoting
  \/ AnnounceWinners
  \/ Payout
  \/ FinishRound

Spec == Init /\ [][Next]_vars

\* the requests served while the process waits for its first phase timer: the
\* handler reads neither the timer nor cycleStartTime
NextPay ==
  \/ Listen
  \/ \E u \in Users, a \in {"upload", "vote"} : StartChoice(u, a)
  \/ \E r \in Refs, u \in Users, a \in Amounts :
       AlreadyProcessed(r, u, a) /\ UNCHANGED request
  \/ \E r \in Refs, u \in Users, a \in Amounts :
       ConfirmPayment(r, u, a) /\ UNCHANGED request
  \/ \E h \in Handlers : BeforeRead(h) /\ UNCHANGED feeWallet
  \/ \E h \in Handlers : BuyOk(h) /\ UNCHANGED market
  \/ \E h \in Handlers : BuyFail(h) /\ UNCHANGED market
  \/ \E h \in Handlers : AfterRead(h)
  \/ \E h \in Handlers : TransferOk(h)
  \/ \E h \in Handlers : TransferFail(h)
  \/ \E h \in Handlers : Finish(h)

SpecPay == InitPay /\ [][NextPay]_vars

\* one request at a time, from the body it arrives with to its settlement,
\* the market purchase venue by venue
InitSettle ==
  Start(InitialBalances, Budget(SettleUsers, Amounts, 1, SettleRefs,
                                SettleAccepts, SettleDups, 0, 0, 0))

NextSettle ==
  \/ Listen
  \/ \E u \in Users, a \in {"upload", "vote"} : StartChoice(u, a)
  \/ \E u \in Users : AttachAudio(u)
  \/ \E body \in Bodies : Request(body)
  \/ \E h \in Handlers : BeforeRead(h) /\ UNCHANGED feeWallet
  \/ \E h \in Handlers, account \in Accounts, pump \in Outcomes, jupiter \in Outcomes :
       \E quoted \in Quotes(RemainingSOL(handlers[h].amount)) :
         MarketPurchase(h, account, pump, jupiter, quoted)
  \/ \E h \in Handlers : AfterRead(h)
  \/ \E h \in Handlers : TransferOk(h)
  \/ \E h \in Handlers : TransferFail(h)
  \/ \E h \in Handlers : Finish(h)

SpecSettle == InitSettle /\ [][NextSettle]_vars

\* ------------------------------------------------------------ one round
\* The state in which a voting phase starts after the users in joined chose,
\* (the first `ups` of them) attached a track and paid one after the other,
\* every query and transfer succeeding: user i paid amounts[i] for reference i.
RoundEntry(i, upload) ==
  [userId |-> i, choice |-> IF upload THEN "upload" ELSE "vote", reference |-> i,
   confirmed |-> TRUE, paid |-> TRUE, track |-> upload, ep |-> 0]

RoundRecord(i, amount, upload) ==
  Registered([userId |-> i, amount |-> amount, reference |-> i, ep |-> 0],
             RoundEntry(i, upload)).rec

\* competitionXPOSURE of a payment settled alone
SettledAlone(amount) == CompetitionShare(RemainingSOL(amount), amount)

RECURSIVE PoolAfter(_)
PoolAfter(amounts) ==
  IF amounts = <<>> THEN 0
  ELSE RoundPoolShare(SettledAlone(Head(amounts))) + PoolAfter(Tail(amounts))

RECURSIVE ReserveAfter(_)
ReserveAfter(amounts) ==
  IF amounts = <<>> THEN 0
  ELSE PermanentShare(SettledAlone(Head(amounts))) + ReserveAfter(Tail(amounts))

RECURSIVE FeeAfter(_)
FeeAfter(amounts) ==
  IF amounts = <<>> THEN 0 ELSE Head(amounts) + FeeAfter(Tail(amounts))

\* chat users who only vote: their ids lie above those of the payers
Fan(k) == MaxPayers + k

\* the same state with tally[i] votes of such users on the track of user i
\* and votes vote callbacks still to come
RoundState(ups, amounts, tally, votes) ==
  LET n == Len(amounts)
      ps == [i \in 1 .. ups |->
               [RoundRecord(i, amounts[i], TRUE) EXCEPT
                  !.votes = tally[i],
                  !.voters = {Fan(k) : k \in 1 .. tally[i]}]]
      vs == [j \in 1 .. n - ups |-> RoundRecord(ups + j, amounts[ups + j], FALSE)]
      pend == [i \in 1 .. n |-> RoundEntry(i, i <= ups)]
      pool == PoolAfter(amounts)
      reserve == ReserveAfter(amounts)
      fee == FeeAfter(amounts) IN
  /\ phase = "voting"
  /\ cycleStartTime = 1
  /\ treasuryXPOSURE = pool
  /\ actualTreasuryBalance = reserve
  /\ transFeeCollected = fee
  /\ pendingPayments = pend
  /\ participants = ps
  /\ voters = vs
  /\ disk = Snapshot(ps, vs, "voting", 1, pool, reserve, fee, pend)
  /\ chainBalance = pool + reserve
  /\ handlers = <<>>
  /\ timer = "announceWinners"
  /\ sched = Idle
  /\ purchases = [r \in Refs |-> IF r <= n THEN 1 ELSE 0]
  /\ credits = [r \in Refs |-> IF r <= n THEN 1 ELSE 0]
  /\ usedRefs = 1 .. n
  /\ epoch = 0
  /\ round = "voting"
  /\ env = [Budget(n, {}, 0, n, 0, 0, votes, 0, 0) EXCEPT !.notified = 1 .. n]
  /\ request = NoRequest
  /\ market = NoMarket
  /\ tier = NoTier
  /\ feeWallet = 0

VotingStarted(ups, amounts) ==
  RoundState(ups, amounts, [i \in 1 .. ups |-> 0], RoundVotes)

InitRound ==
  \E ups \in 1 .. RoundUploaders, vts \in 0 .. RoundVoters :
    \E amounts \in [1 .. ups + vts -> Amounts] : VotingStarted(ups, amounts)

NextRound ==
  \/ \E v \in Users, t \in Users : CastVote(v, t)
  \/ AnnounceWinners
  \/ Payout
  \/ FinishRound

SpecRound == InitRound /\ [][NextRound]_vars

\* ------------------------------------------------------------ one settlement
\* the voting phase is over: each track has TallyVotes-many votes
TallyAmounts(n) ==
  {[i \in 1 .. n |-> 30],
   [i \in 1 .. n |-> IF i % 2 = 1 THEN 5000 ELSE 30],
   [i \in 1 .. n |-> IF i % 2 = 1 THEN 30 ELSE 5000]}

InitTally ==
  \E ups \in 1 .. TallyUploaders :
    \E amounts \in TallyAmounts(ups), tally \in [1 .. ups -> TallyVotes] :
      RoundState(ups, amounts, tally, 0)

NextTally ==
  \/ AnnounceWinners
  \/ Payout
  \/ FinishRound

SpecTally == InitTally /\ [][NextTally]_vars

\* ------------------------------------------------------------ voter rewards
\* voting has started with RewardUploaders tracks and RewardVoters vote-only
\* users, who paid any of the amounts
InitReward ==
  \E uploads \in TallyAmounts(RewardUploaders),
     others \in [1 .. RewardVoters -> Amounts] :
    RoundState(RewardUploaders, uploads \o others,
               [i \in 1 .. RewardUploaders |-> 0], RewardVotes)

NextReward ==
  \/ \E v \in Users, t \in Users : CastVote(v, t)
  \/ AnnounceWinners
  \/ Payout
  \/ FinishRound

SpecReward == InitReward /\ [][NextReward]_vars

\* the timer fires, and every transfer and every message announceWinners
\* awaits returns or throws
SpecRewardFair ==
  /\ SpecReward
  /\ WF_vars(AnnounceWinners)
  /\ WF_vars(Payout)
  /\ WF_vars(FinishRound)

\* ------------------------------------------------------------ a first round
\* the state the app.listen callback leaves on a first start when the
\* treasury is empty or getActualTreasuryBalance threw: nothing is tracked,
\* the empty state is saved and startNewCycle is armed
Listening(balance, budget) ==
  /\ phase = "submission"
  /\ cycleStartTime = 0
  /\ treasuryXPOSURE = 0
  /\ actualTreasuryBalance = 0
  /\ transFeeCollected = 0
  /\ pendingPayments = <<>>
  /\ participants = <<>>
  /\ voters = <<>>
  /\ disk = Snapshot(<<>>, <<>>, "submission", 0, 0, 0, 0, <<>>)
  /\ chainBalance = balance
  /\ handlers = <<>>
  /\ timer = RecoveryTimer(0, "submission")
  /\ sched = Idle
  /\ purchases = [r \in Refs |-> 0]
  /\ credits = [r \in Refs |-> 0]
  /\ usedRefs = {}
  /\ epoch = 0
  /\ round = "new"
  /\ env = budget
  /\ request = NoRequest
  /\ market = NoMarket
  /\ tier = NoTier
  /\ feeWallet = 0

\* one user, two payments that may overlap, and the round they are paid in
\* up to its settlement
InitBonus ==
  \E balance \in InitialBalances \ {0} :
    Listening(balance, Budget(BonusUsers, Amounts, BonusInFlight, BonusRefs,
                              BonusAccepts, 0, 0, BonusCycles, 0))

NextBonus ==
  \/ \E u \in Users : StartChoice(u, "upload")
  \/ \E u \in Users : AttachAudio(u)
  \/ \E r \in Refs, u \in Users, a \in Amounts :
       ConfirmPayment(r, u, a) /\ UNCHANGED request
  \/ \E h \in Handlers : BeforeRead(h) /\ UNCHANGED feeWallet
  \/ \E h \in Handlers : BuyOk(h) /\ UNCHANGED market
  \/ \E h \in Handlers : AfterRead(h)
  \/ \E h \in Handlers : TransferOk(h)
  \/ \E h \in Handlers : TransferFail(h)
  \/ \E h \in Handlers : Finish(h)
  \/ StartNewCycle
  \/ StartVoting
  \/ SkipVoting
  \/ AnnounceWinners
  \/ Payout
  \/ FinishRound

SpecBonus == InitBonus /\ [][NextBonus]_vars

\* ------------------------------------------------------------ unpaid rounds
\* the setInterval callbacks: the status line every 30 seconds and the
\* self-ping every 10 minutes; neither reads or writes the round's state
PeriodicTasks == UNCHANGED vars

\* rounds in which users choose and attach tracks and nobody pays, without end
InitSweep ==
  \E balance \in InitialBalances :
    Listening(balance, Budget(SweepUsers, {}, 0, SweepRefs, 0, 0, 0, Unbounded, 0))

NextSweep ==
  \/ \E u \in Users, a \in {"upload", "vote"} : StartChoice(u, a)
  \/ \E u \in Users : AttachAudio(u)
  \/ PeriodicTasks
  \/ StartNewCycle
  \/ StartVoting
  \/ SkipVoting

\* the phase timers fire and the no-tracks message returns or throws
SpecSweep ==
  /\ InitSweep
  /\ [][NextSweep]_vars
  /\ WF_vars(StartNewCycle)
  /\ WF_vars(StartVoting)
  /\ WF_vars(SkipVoting)

\* ------------------------------------------------------------ rounds without end
\* round after round: the users choose, attach a track, pay and vote while
\* the phase timers run, with no limit on the number of cycles
InitCycle ==
  Listening(0, Budget(CycleUsers, {5000}, 1, CycleRefs, CycleAccepts, 0,
                      CycleVotes, Unbounded, 0))

NextCycle ==
  \/ \E u \in Users, a \in {"upload", "vote"} : StartChoice(u, a)
  \/ \E u \in Users : AttachAudio(u)
  \/ \E v \in Users, t \in Users : CastVote(v, t)
  \/ \E r \in Refs, u \in Users, a \in Amounts :
       ConfirmPayment(r, u, a) /\ UNCHANGED request
  \/ \E h \in Handlers : BeforeRead(h) /\ UNCHANGED feeWallet
  \/ \E h \in Handlers : BuyOk(h) /\ UNCHANGED market
  \/ \E h \in Handlers : BuyFail(h) /\ UNCHANGED market
  \/ \E h \in Handlers : AfterRead(h)
  \/ \E h \in Handlers : TransferOk(h)
  \/ \E h \in Handlers : TransferFail(h)
  \/ \E h \in Handlers : Finish(h)
  \/ StartNewCycle
  \/ StartVoting
  \/ SkipVoting
  \/ AnnounceWinners
  \/ Payout
  \/ FinishRound

\* the phase timers fire, and every message and every transfer a phase
\* function awaits returns or throws
SpecCycle ==
  /\ InitCycle
  /\ [][NextCycle]_vars
  /\ WF_vars(StartNewCycle)
  /\ WF_vars(StartVoting)
  /\ WF_vars(SkipVoting)
  /\ WF_vars(AnnounceWinners)
  /\ WF_vars(Payout)
  /\ WF_vars(FinishRound)

\* ------------------------------------------------------------ trans fee
\* one request at a time, with the outcome of its trans-fee transfer
InitFee ==
  \E balance \in InitialBalances :
    Listening(balance, Budget(FeeUsers, Amounts, 1, FeeRefs, FeeAccepts, 0, 0,
                              0, 0))

NextFee ==
  \/ \E r \in Refs, u \in Users, a \in Amounts :
       ConfirmPayment(r, u, a) /\ UNCHANGED request
  \/ \E h \in Handlers, confirmed \in BOOLEAN : TransFee(h, confirmed)
  \/ \E h \in Handlers : BuyOk(h) /\ UNCHANGED market
  \/ \E h \in Handlers : BuyFail(h) /\ UNCHANGED market
  \/ \E h \in Handlers : AfterRead(h)
  \/ \E h \in Handlers : TransferOk(h)
  \/ \E h \in Handlers : TransferFail(h)
  \/ \E h \in Handlers : Finish(h)

SpecFee == InitFee /\ [][NextFee]_vars

\* ------------------------------------------------------------ tier selection
\* accepted amounts, in units of 0.001 SOL: a fine grid over the three flat
\* bands, a coarse one over the Whale band, the neighbours of its two ends and
\* the largest amount /confirm-payment accepts
TierAmounts ==
  (1 .. TierFine) \cup {50 * k : k \in 2 .. TierCoarse}
    \cup {499, 501, 520, 4999, 5001, 100000}

\* const tier = getTier(amountNum) and the Whale interpolation
SelectTier(amount) ==
  /\ amount \in env.amounts
  /\ tier' = [amount |-> amount, tier |-> getTier(amount),
              retention |-> RetentionOf(amount),
              multiplier |-> MultiplierOf(amount)]
  /\ UNCHANGED <<memvars, disk, chainBalance, handlers, timer, sched,
                 histvars, request, market, feeWallet>>

InitTier == Start({0}, Budget(1, TierAmounts, 1, 1, 1, 0, 0, 0, 0))

NextTier == \E amount \in TierAmounts : SelectTier(amount)

SpecTier == InitTier /\ [][NextTier]_vars

\* ------------------------------------------------------------ properties
\* the Participant and Voter records registered for reference r
RecordsOf(r) ==
  Cardinality({i \in 1 .. Len(participants) : participants[i].ref = r})
    + Cardinality({i \in 1 .. Len(voters) : voters[i].ref = r})

\* the first pending entry with reference r is marked confirmed
Confirmed(r) ==
  \E i \in 1 .. Len(pendingPayments) :
    /\ pendingPayments[i].reference = r
    /\ pendingPayments[i].confirmed
    /\ \A j \in 1 .. i - 1 : pendingPayments[j].reference # r

\* C1: within a round, once a notification for reference r has been accepted
\* its entry stays confirmed, so every further notification for r is answered
\* "Already processed"; r has at most one request in flight, at most one
\* purchase, and at most one Participant/Voter record.
C1_Idempotent ==
  \A r \in Refs :
    /\ r \in env.notified => Confirmed(r)
    /\ Cardinality({h \in Handlers : handlers[h].reference = r}) <= 1
    /\ purchases[r] <= 1
    /\ RecordsOf(r) <= 1

\* C1: a repeated notification has been answered "Already processed" while
\* the first request for the reference awaits its purchase or its transfer
C1_Witness ==
  \E h \in Handlers :
    /\ handlers[h].pc \in {"buy", "transfer"}
    /\ Confirmed(handlers[h].reference)
    /\ env.dups < PayDups

\* request h is settled by this step: its transfer succeeded
Settles(h) ==
  /\ handlers[h].pc = "transfer"
  /\ Len(handlers') = Len(handlers)
  /\ handlers'[h].pc = "notify"

\* C3: when a payment with tokensReceived T is settled, the payer share
\* floor(T*r), the growth of the round pool and the growth of the reserve add
\* up to T, and none of the three is negative.
C3_SplitConservation ==
  [][\A h \in Handlers :
       Settles(h) =>
         LET T == handlers[h].total
             payerShare == UserShare(T, handlers[h].amount)
             roundPoolShare == treasuryXPOSURE' - treasuryXPOSURE
             reserveShare == actualTreasuryBalance' - actualTreasuryBalance IN
         /\ payerShare + roundPoolShare + reserveShare = T
         /\ payerShare >= 0
         /\ roundPoolShare >= 0
         /\ reserveShare >= 0]_vars

\* C5: the perpetual reserve is never negative.
C5_ReserveNonNegative == actualTreasuryBalance >= 0

\* C2: over the whole run, restarts and round resets included, a reference
\* has at most one market purchase and at most one treasury credit.
C2_AtMostOnce ==
  \A r \in Refs : purchases[r] <= 1 /\ credits[r] <= 1

\* C4: in a round settlement the winner payouts (without the bonus) and the
\* voter rewards sent so far never exceed the round pool the settlement
\* started with.
C4_RoundConservation ==
  sched.pc \in {"aw_winners", "aw_voters", "aw_results"} => sched.sent <= sched.pool0

\* the phase changes the round allows
PhaseChange(from, to) ==
  \/ from = "submission" /\ to = "voting"
  \/ from = "voting" /\ to = "cooldown"
  \/ from = "cooldown" /\ to = "submission"
  \/ /\ from = "submission" /\ to = "cooldown"
     /\ sched.pc = "sv_skip" /\ sched.uploaders = 0

\* C6: while the process runs, phase changes only along Submission -> Voting
\* -> Cooldown -> Submission, or Submission -> Cooldown when the deadline
\* found no upload; the phase the process stops in is the phase it leaves on
\* disk, and a restart resumes in the phase on disk.
C6_PhaseOrder ==
  [][/\ (Up /\ Up' /\ phase' # phase) => PhaseChange(phase, phase')
     /\ (Up /\ ~Up') => disk'.exists /\ disk'.phase = phase
     /\ (~Up /\ Up' /\ disk.exists) => phase' = disk.phase]_vars

\* C6: the shortcut Submission -> Cooldown has been taken in a run with a
\* restart
C6_Witness ==
  /\ Up
  /\ phase = "cooldown"
  /\ round = "skipped"
  /\ env.crashes < MaxCrashes

NoPaidUpload ==
  \A i \in 1 .. Len(participants) :
    ~(participants[i].choice = "upload" /\ participants[i].paid)

\* C7: when the submission deadline finds no paid upload, startVoting waits
\* for its message and then sets Cooldown, never Voting; neither step moves
\* tokens or changes the round pool, no settlement runs in the skipped round,
\* and the startNewCycle that follows leaves the round pool as it is.
C7_ZeroUploadSkip ==
  [][/\ (timer = "startVoting" /\ Up' /\ timer' # timer /\ NoPaidUpload) =>
          /\ sched'.pc = "sv_skip"
          /\ phase' = phase
          /\ treasuryXPOSURE' = treasuryXPOSURE
          /\ chainBalance' = chainBalance
     /\ (sched.pc = "sv_skip" /\ Up' /\ sched' # sched) =>
          /\ phase = "submission" /\ phase' = "cooldown"
          /\ round' = "skipped"
          /\ treasuryXPOSURE' = treasuryXPOSURE
          /\ chainBalance' = chainBalance
     /\ (round = "skipped" /\ round' = "skipped") => sched' = Idle
     /\ (round = "skipped" /\ round' # "skipped") =>
          /\ round' = "afterSkip"
          /\ phase' = "submission"
          /\ treasuryXPOSURE' = treasuryXPOSURE
          /\ chainBalance' = chainBalance]_vars

\* C7: a Submission phase that follows a skipped round has begun with tokens
\* in the round pool
C7_Witness ==
  /\ round = "afterSkip"
  /\ phase = "submission"
  /\ timer = "startVoting"
  /\ treasuryXPOSURE > 0

\* C8: whenever the running process goes from Cooldown to Submission, the
\* Participant, Voter and pending-entry collections are empty.
C8_RoundReset ==
  [][(Up /\ Up' /\ phase = "cooldown" /\ phase' = "submission") =>
       /\ participants' = <<>>
       /\ voters' = <<>>
       /\ pendingPayments' = <<>>]_vars

\* C9: when the process stops with no request in flight, reloading the file
\* it leaves and running startup recovery continues as the process would
\* have: with a timer pending (or startVoting waiting for its message) the
\* file holds the memory, reloading leaves the reserve as it is, and recovery
\* arms the same phase function; during a settlement, whose never-restarted
\* run begins the next Submission with the collections cleared and the round
\* pool at 0, recovery begins the next Submission from a file that holds the
\* same.
C9_RestartSafety ==
  [][(Up /\ ~Up' /\ handlers = <<>>) =>
       IF sched.pc \in {"idle", "sv_skip"}
       THEN /\ disk' = InMemory
            /\ disk'.actualTreasuryBalance = 0 => chainBalance = 0
            /\ RecoveryTimer(disk'.cycleStartTime, disk'.phase)
                 = IF sched.pc = "sv_skip" THEN "startVoting" ELSE timer
       ELSE /\ RecoveryTimer(disk'.cycleStartTime, disk'.phase) = "startNewCycle"
            /\ disk'.participants = <<>>
            /\ disk'.voters = <<>>
            /\ disk'.pendingPayments = <<>>
            /\ disk'.treasuryXPOSURE = 0]_vars

\* C10: a round that entered Voting is settled exactly once before the next
\* Submission begins: startNewCycle never runs while the round is in Voting
\* or in the middle of its settlement, restarts included, and a settlement
\* only starts for a round in Voting.
C10_SettlementNotSkipped ==
  [][/\ env.cycles' < env.cycles => round \notin {"voting", "settling"}
     /\ (round' = "settling" /\ round # "settling") => round = "voting"]_vars

\* the amount text is a number from its first character to its last
IsNumber(text) ==
  LET v == parseFloat(text) IN ~v.nan /\ v.next = Len(text) + 1

\* the amount lies in [0.001, 100]
InRange(text) ==
  LET v == parseFloat(text) IN v.num * 1000 >= v.den /\ v.num <= 100 * v.den

\* C11: a request whose reference, payer id or payer address is missing,
\* whose amount is not a number or lies outside [0.001, 100], or whose
\* address is invalid is answered with an error, changes none of the pending
\* entries, participants, voters, round pool, reserve and transFeeCollected,
\* and starts no transfer or purchase.
C11_ValidationRejects ==
  [][(/\ request' # request
      /\ \/ request'.body.reference = 0
         \/ request'.body.userId = 0
         \/ request'.body.senderWallet # "valid"
         \/ ~IsNumber(request'.body.amount)
         \/ ~InRange(request'.body.amount)) =>
       /\ request'.status = 400
       /\ UNCHANGED <<pendingPayments, participants, voters, treasuryXPOSURE,
                      actualTreasuryBalance, transFeeCollected>>
       /\ handlers' = handlers
       /\ chainBalance' = chainBalance
       /\ purchases' = purchases]_vars

\* request h leaves /confirm-payment by this step
Aborts(h) == Len(handlers') = Len(handlers) - 1

C13_TransferFailureKeepsCredit ==
  [][\A h \in Handlers :
       (handlers[h].pc = "transfer" /\ Aborts(h)) =>
         LET hd == handlers[h]
             poolShare == CompetitionShare(hd.total, hd.amount) IN
         /\ participants' = participants
         /\ voters' = voters
         /\ credits'[hd.reference] >= 1
         /\ treasuryXPOSURE' >= RoundPoolShare(poolShare)]_vars

\* C14: a settled payment registers a Participant exactly when its pending
\* entry has choice upload and a track; in every other case (choice vote,
\* upload without a track, no pending entry) it registers a Voter with
\* votedFor unset; one collection gains one record of the payer, the other
\* none, and no other step of a request registers anybody.
C14_RegistrationByChoice ==
  [][\A h \in Handlers :
       LET hd == handlers[h]
           i == EntryOf(pendingPayments, hd.reference)
           upload == /\ i # 0
                     /\ pendingPayments[i].choice = "upload"
                     /\ pendingPayments[i].track IN
       IF Settles(h)
       THEN IF upload
            THEN /\ Len(participants') = Len(participants) + 1
                 /\ SubSeq(participants', 1, Len(participants)) = participants
                 /\ participants'[Len(participants')].userId = hd.userId
                 /\ participants'[Len(participants')].choice = "upload"
                 /\ voters' = voters
            ELSE /\ Len(voters') = Len(voters) + 1
                 /\ SubSeq(voters', 1, Len(voters)) = voters
                 /\ voters'[Len(voters')].userId = hd.userId
                 /\ voters'[Len(voters')].choice = "vote"
                 /\ voters'[Len(voters')].votedFor = NoUser
                 /\ participants' = participants
       ELSE (Up /\ handlers' # handlers) =>
              participants' = participants /\ voters' = voters]_vars

\* C14: a payer who chose upload and attached no track has been registered
\* as a Voter
C14_Witness ==
  /\ Len(voters) = 1
  /\ participants = <<>>
  /\ \E i \in 1 .. Len(pendingPayments) :
       /\ pendingPayments[i].reference = voters[1].ref
       /\ pendingPayments[i].choice = "upload"
       /\ ~pendingPayments[i].track

\* C15: purchase() starts with the bonding-curve venue when the token has
\* not graduated and with the post-graduation venue when it has; in both
\* cases a failure of the first venue is followed by a further venue, so a
\* purchase that fails has tried more than one venue.
C15_VenueFallback ==
  market.account # "none" =>
    /\ market.account = "open" => market.tried[1] = "pump"
    /\ market.account \in {"absent", "complete"} => market.tried[1] = "jupiter"
    /\ (market.account # "error" /\ ~market.ok) => Len(market.tried) > 1

\* C16: with no other treasury activity during the request, the amount that
\* is split and credited is the balance read after the purchase minus the
\* balance read before it: the receipt is that difference, the payer is sent
\* her share of it and the pool and the reserve grow by theirs, whatever the
\* venue function returned.
C16_BalanceDeltaReceipt ==
  [][\A h \in Handlers :
       LET hd == handlers[h]
           delta == chainBalance - hd.balanceBefore IN
       /\ (hd.pc = "after" /\ handlers' # handlers /\ ~Aborts(h)) =>
            handlers'[h].total = delta
       /\ Settles(h) =>
            /\ hd.total = delta
            /\ chainBalance - chainBalance' = UserShare(delta, hd.amount)
            /\ treasuryXPOSURE' - treasuryXPOSURE
                 = RoundPoolShare(CompetitionShare(delta, hd.amount))
            /\ actualTreasuryBalance' - actualTreasuryBalance
                 = PermanentShare(CompetitionShare(delta, hd.amount))]_vars

\* C16: a payment has been settled on a receipt that differs from what the
\* venue function returned
C16_Witness ==
  \E h \in Handlers :
    /\ handlers[h].pc = "notify"
    /\ market.ok
    /\ market.returned # handlers[h].total

\* this step is announceWinners computing the ranking and the payouts
Settlement == round # "settling" /\ round' = "settling"

\* entry a of the uploaders ups is ranked ahead of entry b: more votes, or
\* as many and registered earlier
Ahead(ups, a, b) ==
  ups[a].votes > ups[b].votes \/ (ups[a].votes = ups[b].votes /\ a < b)

\* the place in registration order of the uploader the payout goes to
PlaceOf(ups, payout) ==
  First({i \in 1 .. Len(ups) : ups[i].userId = payout.to})

\* C17: the settlement ranks the uploaders by votes, descending, and ranks
\* two with equal votes in registration order: the winner of place k is
\* ahead of every uploader who is not among the first k; the winners are the
\* first min(5, n) of the ranking.
C17_StableRanking ==
  [][Settlement =>
       LET ups == Uploaders(participants)
           winners == sched'.queue IN
       /\ Len(winners) = Min(5, Len(ups))
       /\ \A k \in 1 .. Len(winners) :
            /\ winners[k].rank = k
            /\ PlaceOf(ups, winners[k]) # 0
            /\ \A i \in 1 .. Len(ups) :
                 (\A j \in 1 .. k : PlaceOf(ups, winners[j]) # i) =>
                   Ahead(ups, PlaceOf(ups, winners[k]), i)]_vars

\* C17: three uploads with votes 5, 3, 3 in registration order are settled
\* with the earlier 3-vote entrant second
C17_Witness ==
  /\ sched.pc = "aw_winners"
  /\ Len(participants) = 3
  /\ participants[1].votes = 5
  /\ participants[2].votes = 3
  /\ participants[3].votes = 3
  /\ Len(sched.queue) = 3
  /\ sched.queue[2].to = participants[2].userId
  /\ sched.queue[3].to = participants[3].userId

C19_BonusHandling ==
  [][/\ Settlement =>
          LET winners == sched'.queue
              deducted == actualTreasuryBalance - actualTreasuryBalance' IN
          /\ deducted \in {0, calculateTreasuryBonus(actualTreasuryBalance)}
          /\ deducted # 0 => (0 < deducted /\ deducted <= actualTreasuryBalance)
          /\ \A k \in 1 .. Len(winners) :
               winners[k].amt - winners[k].base
                 = IF winners[k].rank = 1 THEN deducted ELSE 0
     /\ (round = "settling" /\ sched' # sched /\ Up') =>
          actualTreasuryBalance' = actualTreasuryBalance]_vars

\* the values the reserve can take when the process is started again with
\* file d on disk and balance chain in the treasury account: the saved value,
\* or, when that is 0 or there is no file, what the balance query yields
Restarted(d, chain) ==
  LET loaded == IF d.exists THEN d.actualTreasuryBalance ELSE 0 IN
  IF loaded = 0 THEN {chain, 0} ELSE {loaded}

\* C20: the perpetual reserve never decreases in a step of the running
\* process (payment settlement, vote, phase transition, round reset) except
\* in a round settlement by the bonus it pays, a restart never brings back
\* less than the reserve the process held when it stopped, and no phase
\* transition resets a reserve to 0
C20_ReserveMonotone ==
  [][/\ (Up /\ Up') =>
          \/ actualTreasuryBalance' >= actualTreasuryBalance
          \/ /\ Settlement
             /\ actualTreasuryBalance' =
                  actualTreasuryBalance - calculateTreasuryBonus(actualTreasuryBalance)
     /\ (Up /\ ~Up') =>
          \A reserve \in Restarted(disk', chainBalance') :
            reserve >= actualTreasuryBalance
     /\ (Up /\ Up' /\ phase' # phase /\ actualTreasuryBalance # 0) =>
          actualTreasuryBalance' # 0]_vars

\* C27: of two tier selections the one for the larger amount has a retention
\* and a multiplier at least as large, whatever the bands of the two amounts
C27_TierMonotone ==
  [][(tier.amount # 0 /\ tier.amount < tier'.amount) =>
       /\ tier.retention <= tier'.retention
       /\ tier.multiplier <= tier'.multiplier]_vars

\* C27: an amount inside the interpolated part of the Whale band was selected
C27_Witness ==
  /\ tier.tier = "WHALE"
  /\ tier.amount > 500
  /\ tier.amount < 5000
  /\ tier.retention > TierRetention("WHALE")
  /\ tier.multiplier > TierMultiplier("WHALE")

\* the value at amount of the line through (0.50 SOL, from) and (5.00 SOL, to)
OnLine(value, amount, from, to) ==
  (value - from) * (5000 - 500) = (to - from) * (amount - 500)

\* C28: the retention and the multiplier selected for an amount are (0.50,
\* 1.0) below 0.05 SOL, (0.55, 1.05) in [0.05, 0.10), (0.60, 1.10) in [0.10,
\* 0.50), the linear interpolation from (0.65, 1.15) at 0.50 to (0.75, 1.50)
\* at 5.00 in between, and (0.75, 1.50) above; they depend on the amount only
C28_TierMapping ==
  LET a == tier.amount
      r == tier.retention * 100
      m == tier.multiplier * 100
      Ret(percent) == (percent * RetDen) \div 100
      Mult(percent) == (percent * MultDen) \div 100 IN
  a # 0 =>
    /\ a < 50 => (r = 50 * RetDen /\ m = 100 * MultDen)
    /\ (50 <= a /\ a < 100) => (r = 55 * RetDen /\ m = 105 * MultDen)
    /\ (100 <= a /\ a < 500) => (r = 60 * RetDen /\ m = 110 * MultDen)
    /\ (500 <= a /\ a <= 5000) =>
         /\ OnLine(tier.retention, a, Ret(65), Ret(75))
         /\ OnLine(tier.multiplier, a, Mult(115), Mult(150))
    /\ a > 5000 => (r = 75 * RetDen /\ m = 150 * MultDen)

\* C28: 0.52 SOL, just above the Whale threshold, was selected
C28_Witness ==
  /\ tier.amount = 520
  /\ tier.tier = "WHALE"

\* the step in which announceWinners turns to the voter rewards
VoterRewards ==
  /\ sched.pc \notin {"aw_voters", "aw_results"}
  /\ sched'.pc \in {"aw_voters", "aw_results"}

\* the amounts of the voters in vs who voted for winnerId, added up
RECURSIVE RewardTotal(_, _)
RewardTotal(vs, winnerId) ==
  IF vs = <<>> THEN 0
  ELSE (IF Head(vs).votedFor = winnerId THEN Head(vs).amount ELSE 0)
         + RewardTotal(Tail(vs), winnerId)

RECURSIVE SumAmt(_)
SumAmt(queue) == IF queue = <<>> THEN 0 ELSE Head(queue).amt + SumAmt(Tail(queue))

C22_PayoutIsolation ==
  /\ [][(sched.pc \in {"aw_winners", "aw_voters"} /\ sched' # sched) =>
         /\ sched'.pc \in {"aw_winners", "aw_voters", "aw_results"}
         /\ Tail(sched.queue) # <<>> =>
              (sched'.pc = sched.pc /\ sched'.queue = Tail(sched.queue))]_vars
  /\ (round = "settling") ~>
       (/\ round = "settled"
        /\ participants = <<>>
        /\ voters = <<>>
        /\ pendingPayments = <<>>
        /\ treasuryXPOSURE = 0
        /\ timer = "startNewCycle")

\* C22: every payout of a settlement has been attempted, winners and voters,
\* and none of them moved any tokens
C22_Witness ==
  /\ sched.pc = "aw_results"
  /\ sched.sent > sched.pool0 - sched.voterPool
  /\ chainBalance = sched.pool0 + actualTreasuryBalance

\* C23: within a round, a votedFor that names a participant is not changed
\* by any later step
C23_VotedForWriteOnce ==
  [][\A k \in 1 .. Len(voters) :
       (voters[k].votedFor # NoUser /\ epoch' = epoch /\ Up') =>
         /\ k <= Len(voters')
         /\ voters'[k].votedFor = voters[k].votedFor]_vars

\* C24: the vote count of every participant is the number of voter ids in its
\* voter set, and a step that adds no voter id to the set counts no vote
C24_VoteDedup ==
  /\ [](\A i \in 1 .. Len(participants) :
          participants[i].votes = Cardinality(participants[i].voters))
  /\ [][\A i \in 1 .. Len(participants) :
          (i <= Len(participants') /\ participants'[i].voters = participants[i].voters)
            => participants'[i].votes = participants[i].votes]_vars

\* C24: a track has a vote from a user who could send the callback again
C24_Witness ==
  /\ env.votes > 0
  /\ timer = "announceWinners"
  /\ \E i \in 1 .. Len(participants) :
       /\ participants[i].votes = 1
       /\ \E u \in participants[i].voters : u <= env.users

\* C25: no two pending entries belong to the same payer and no two carry the
\* same reference
C25_PendingUnique ==
  \A i, j \in 1 .. Len(pendingPayments) :
    i # j =>
      /\ pendingPayments[i].userId # pendingPayments[j].userId
      /\ pendingPayments[i].reference # pendingPayments[j].reference

\* the entry with reference r is pending and has not been paid for
Unsettled(r) ==
  \E i \in 1 .. Len(pendingPayments) :
    /\ pendingPayments[i].reference = r
    /\ ~pendingPayments[i].confirmed

\* C26: no pending entry stays unsettled for ever: one that has outlived the
\* timeout is removed at some time
C26_PendingTimeout ==
  \A r \in Refs : []<>~Unsettled(r)

\* C29: while announceWinners is between its ranking and its reset, and while
\* a payment request is between its acceptance and its last saveState, a step
\* of any other handler leaves participants, voters, pending entries, round
\* pool and reserve as they are
C29_Serialized ==
  [][/\ (sched.pc \in {"aw_winners", "aw_voters", "aw_results"}
          /\ sched' = sched /\ Up') =>
          UNCHANGED <<participants, voters, pendingPayments, treasuryXPOSURE,
                      actualTreasuryBalance>>
     /\ (handlers # <<>> /\ handlers' = handlers /\ Up') =>
          UNCHANGED <<participants, voters, pendingPayments, treasuryXPOSURE,
                      actualTreasuryBalance>>]_vars

\* the phase a phase function waiting at pc is moving the round to
TargetPhase(pc) ==
  IF pc \in {"sv_skip", "aw_winners", "aw_voters", "aw_results"}
  THEN "cooldown" ELSE phase

\* C30: a step of the running process that changes the phase saves the new
\* phase, and while a phase function waits for a message or a transfer the
\* saved phase is the one it moves the round to
C30_PersistFirst ==
  /\ [][(Up /\ Up' /\ phase' # phase) => (disk'.exists /\ disk'.phase = phase')]_vars
  /\ []((Up /\ sched.pc # "idle") =>
          (disk.exists /\ disk.phase = TargetPhase(sched.pc)))

\* no request and no phase function is at an await: every handler that
\* started has returned
Quiescent == Up /\ handlers = <<>> /\ sched.pc = "idle"

\* C31: once every handler has returned, the saved snapshot is the state in
\* memory, field by field (the confirmed marks of the pending entries and
\* transFeeCollected among them)
C31_SnapshotFresh == Quiescent => disk = InMemory

C33_RegistrationInSubmission ==
  [][(/\ Up /\ Up'
      /\ \/ Len(participants') > Len(participants)
         \/ Len(voters') > Len(voters)
         \/ treasuryXPOSURE' > treasuryXPOSURE)
       => phase = "submission"]_vars

\* request h takes its receipt by this step: the balance after its purchase
\* was read and the delta goes on to the split
Receives(h) ==
  /\ handlers[h].pc = "after"
  /\ Len(handlers') = Len(handlers)
  /\ handlers'[h].reference = handlers[h].reference
  /\ handlers'[h].pc = "transfer"

\* C34: with any number of requests in flight, a request whose before-read
\* returned a balance takes as its receipt the tokens its own purchase added
\* to the treasury account, never less and never a negative amount
C34_OwnPurchaseCredited ==
  [][\A h \in Handlers :
       (Receives(h) /\ handlers[h].balanceBefore > 0) =>
         /\ handlers'[h].total \in Bought(RemainingSOL(handlers[h].amount))
         /\ handlers'[h].total >= 0]_vars

\* C35: whatever the before-read did (returned the balance, or threw and
\* left 0), the receipt a request takes is no more than the tokens its own
\* purchase added to the treasury account
C35_ReceiptWithinPurchase ==
  [][\A h \in Handlers :
       Receives(h) =>
         \E b \in Bought(RemainingSOL(handlers[h].amount)) :
           handlers'[h].total <= b]_vars

\* C36: when the await of the trans-fee transfer of a request is over the
\* request goes on to its purchase, and transFeeCollected has grown by what
\* the fee wallet received: by the fee after a confirmed transfer, by nothing
\* after a failed one
C36_FeeCollectedWhenSent ==
  [][\A h \in Handlers :
       (handlers[h].pc = "before" /\ handlers' # handlers) =>
         /\ Len(handlers') = Len(handlers)
         /\ handlers'[h].pc = "buy"
         /\ transFeeCollected' - transFeeCollected = feeWallet' - feeWallet]_vars

\* the Participant and Voter records of payer u
EntriesOf(u) ==
  Cardinality({i \in 1 .. Len(participants) : participants[i].userId = u})
    + Cardinality({i \in 1 .. Len(voters) : voters[i].userId = u})

\* C37: no payer has more than one record in participants and voters taken
\* together
C37_OneEntryPerPayer == \A u \in Users : EntriesOf(u) <= 1

\* this step counts a vote: a participant that stays has another vote count
\* or voter set, or a Voter that stays has another votedFor
VoteCounted ==
  \/ \E i \in 1 .. Len(participants) :
       /\ i <= Len(participants')
       /\ participants'[i].userId = participants[i].userId
       /\ \/ participants'[i].votes # participants[i].votes
          \/ participants'[i].voters # participants[i].voters
  \/ \E k \in 1 .. Len(voters) :
       /\ k <= Len(voters')
       /\ voters'[k].userId = voters[k].userId
       /\ voters'[k].votedFor # voters[k].votedFor

\* C38: a step of the running process that counts a vote is taken in the
\* voting phase
C38_VotesInVoting ==
  [][(Up /\ Up' /\ VoteCounted) => phase = "voting"]_vars

====
